---- MODULE Spec2Model ----
(***************************************************************************)
(* Model of the enhanced gene MSA scraper (src/summary.js, second half:    *)
(* the Puppeteer program that starts at line 44).  Texts are sequences of  *)
(* one-character strings, so that the classifier, the response observer's  *)
(* acceptance test, trim() and the file-name sanitiser are computed on     *)
(* characters as the JavaScript computes them.                             *)
(* Spec is the enhanced scraper, ClassifierSpec applies isValidMSAData to   *)
(* a bank of blobs, BasicSpec is the basic scraper (src/scraper.js).        *)
(***************************************************************************)
EXTENDS Integers, Sequences, FiniteSets, TLC

(***************************************************************************)
(* Program constants                                                       *)
(***************************************************************************)
MAX_RETRIES == 3

\* data.length < 100 in isValidMSAData
MinValidLen == 100

\* text.length > 100 in the response listener
ObserverMinLen == 100

\* msaDataFromNetwork.length > 1000 at the short-circuit check
ShortCircuitLen == 1000

\* msaDataFromNetwork.length > 50 at the Export-miss fallback
FallbackLen == 50

\* {10,} in the two sequence regular expressions
MinRun == 10

\* msaData.length < 10 after the clipboard read
ClipboardMinLen == 10

\* el.textContent.length > 50 in the DOM scan
DomMinLen == 50

OUTPUT_DIR == "./output"

(***************************************************************************)
(* Bounds of the model (not program constants)                             *)
(***************************************************************************)
\* filler appended to the small texts of the text bank
PadSmall == 100

\* filler appended to the big texts of the text bank
PadBig == 1000

(***************************************************************************)
(* JavaScript values and string primitives                                 *)
(***************************************************************************)
\* null / undefined; every text is a sequence of one-character strings
NULL == <<"<null>">>

\* JavaScript truthiness of a string-or-null value
Truthy(v) == v # NULL /\ v # <<>>

NUL == "<x00>"

REPLACEMENT == "<uFFFD>"

WhiteSpace == {" ", "\t", "\n", "\r"}

LineTerminators == {"\n", "\r"}

Rep(c, n) == [i \in 1..n |-> c]

\* String.prototype.includes
Includes(text, sub) ==
    \E i \in 1..(Len(text) - Len(sub) + 1) :
        \A k \in 1..Len(sub) : text[i + k - 1] = sub[k]

\* String.prototype.startsWith
StartsWith(text, pre) ==
    /\ Len(text) >= Len(pre)
    /\ \A k \in 1..Len(pre) : text[k] = pre[k]

RECURSIVE TrimStart(_)
TrimStart(t) == IF t # <<>> /\ Head(t) \in WhiteSpace THEN TrimStart(Tail(t)) ELSE t

RECURSIVE TrimEnd(_)
TrimEnd(t) ==
    IF t # <<>> /\ t[Len(t)] \in WhiteSpace
    THEN TrimEnd(SubSeq(t, 1, Len(t) - 1))
    ELSE t

\* String.prototype.trim
Trim(t) == TrimEnd(TrimStart(t))

UpperCase ==
    <<"A","B","C","D","E","F","G","H","I","J","K","L","M",
      "N","O","P","Q","R","S","T","U","V","W","X","Y","Z">>

LowerCase ==
    <<"a","b","c","d","e","f","g","h","i","j","k","l","m",
      "n","o","p","q","r","s","t","u","v","w","x","y","z">>

ToLowerChar(c) ==
    IF \E i \in 1..Len(UpperCase) : UpperCase[i] = c
    THEN LowerCase[CHOOSE i \in 1..Len(UpperCase) : UpperCase[i] = c]
    ELSE c

\* String.prototype.toLowerCase
ToLowerCase(t) == [i \in 1..Len(t) |-> ToLowerChar(t[i])]

\* text.replace(/[set]/g, c)
ReplaceChars(t, set, c) == [i \in 1..Len(t) |-> IF t[i] \in set THEN c ELSE t[i]]

\* text.replace(sub, rep) with a string pattern: the first occurrence only
ReplaceFirst(t, sub, rep) ==
    IF Includes(t, sub)
    THEN LET at == CHOOSE i \in 1..(Len(t) - Len(sub) + 1) :
                      /\ \A k \in 1..Len(sub) : t[i + k - 1] = sub[k]
                      /\ \A j \in 1..(i - 1) :
                            \E k \in 1..Len(sub) : t[j + k - 1] # sub[k]
         IN  SubSeq(t, 1, at - 1) \o rep \o SubSeq(t, at + Len(sub), Len(t))
    ELSE t

\* /[alphabet]{n,}/.test(text)
HasRun(text, alphabet, n) ==
    \E i \in 1..(Len(text) - n + 1) :
        \A k \in 0..(n - 1) : text[i + k] \in alphabet

\* /^[alphabet]+$/m.test(text): a whole non-empty line over the alphabet
HasPureLine(text, alphabet) ==
    \E i \in 1..Len(text) :
        /\ i = 1 \/ text[i - 1] \in LineTerminators
        /\ \E j \in i..Len(text) :
              /\ \A k \in i..j : text[k] \in alphabet
              /\ j = Len(text) \/ text[j + 1] \in LineTerminators

(***************************************************************************)
(* getFileName, isValidMSAData, the observer's acceptance test             *)
(***************************************************************************)
SpecialChars == {"<", ">", ":", "\"", "/", "\\", "|", "?", "*"}

DotTxt == <<".", "t", "x", "t">>

FailedDotTxt == <<"_", "F", "A", "I", "L", "E", "D", ".", "t", "x", "t">>

\* getFileName(geneName); now is the value of Date.now()
getFileName(geneName, now) ==
    IF \/ ~Truthy(geneName)
       \/ Trim(geneName) = <<>>
       \/ ToLowerCase(geneName) = <<"n", "a">>
    THEN <<"unknown_gene_", now>> \o DotTxt
    ELSE Trim(ReplaceChars(geneName, SpecialChars, "_")) \o DotTxt

\* path.join(OUTPUT_DIR, fileName)
JoinOutput(fileName) == <<OUTPUT_DIR, "/">> \o fileName

DnaAlphabet == {"A", "T", "C", "G", "N", "-", "a", "t", "c", "g", "n"}

RnaAlphabet == {"A", "C", "G", "U", "N", "-", "a", "c", "g", "u", "n"}

PngSignature == <<"<x89>", "P", "N", "G">>

JpegSignature == <<"<xFF>", "<xD8>", "<xFF>">>

GifSignature == <<"G", "I", "F", "8">>

BmpSignature == <<"B", "M">>

\* mutant of isValidMSAData: the replacement character is not looked for
isValidMSADataNoReplacement(text) ==
    IF text = NULL THEN FALSE
    ELSE IF \/ StartsWith(text, PngSignature)
            \/ StartsWith(text, JpegSignature)
            \/ StartsWith(text, GifSignature)
            \/ StartsWith(text, BmpSignature)
            \/ Includes(text, <<NUL>>)
         THEN FALSE
    ELSE IF Len(text) < MinValidLen THEN FALSE
    ELSE /\ Includes(text, <<">">>) \/ Includes(text, <<"\t">>)
         /\ HasRun(text, DnaAlphabet, MinRun) \/ HasRun(text, RnaAlphabet, MinRun)

\* mutant of isValidMSAData: the sequence tests are case-sensitive
isValidMSADataCaseSensitive(text) ==
    IF text = NULL THEN FALSE
    ELSE IF \/ StartsWith(text, PngSignature)
            \/ StartsWith(text, JpegSignature)
            \/ StartsWith(text, GifSignature)
            \/ StartsWith(text, BmpSignature)
            \/ Includes(text, <<NUL>>)
            \/ Includes(text, <<REPLACEMENT>>)
         THEN FALSE
    ELSE IF Len(text) < MinValidLen THEN FALSE
    ELSE /\ Includes(text, <<">">>) \/ Includes(text, <<"\t">>)
         /\ \/ HasRun(text, {"A", "T", "C", "G", "N", "-"}, MinRun)
            \/ HasRun(text, {"A", "C", "G", "U", "N", "-"}, MinRun)

\* mutant of isValidMSAData: no minimum length
isValidMSADataNoLength(data) ==
    IF data = NULL THEN FALSE
    ELSE IF \/ StartsWith(data, PngSignature)
            \/ StartsWith(data, JpegSignature)
            \/ StartsWith(data, GifSignature)
            \/ StartsWith(data, BmpSignature)
            \/ Includes(data, <<NUL>>)
            \/ Includes(data, <<REPLACEMENT>>)
         THEN FALSE
    ELSE LET hasFastaHeaders == Includes(data, <<">">>)
             hasTabData == Includes(data, <<"\t">>)
             hasSequenceData == \/ HasRun(data, DnaAlphabet, MinRun)
                                \/ HasRun(data, RnaAlphabet, MinRun)
         IN  (hasFastaHeaders \/ hasTabData) /\ hasSequenceData

\* isValidMSAData(data); a value that is not a string is NULL here
isValidMSAData(data) ==
    IF data = NULL THEN FALSE
    ELSE IF \/ StartsWith(data, PngSignature)
            \/ StartsWith(data, JpegSignature)
            \/ StartsWith(data, GifSignature)
            \/ StartsWith(data, BmpSignature)
            \/ Includes(data, <<NUL>>)
            \/ Includes(data, <<REPLACEMENT>>)
         THEN FALSE
    ELSE IF Len(data) < MinValidLen THEN FALSE
    ELSE LET hasFastaHeaders == Includes(data, <<">">>)
             hasTabData == Includes(data, <<"\t">>)
             hasSequenceData == \/ HasRun(data, DnaAlphabet, MinRun)
                                \/ HasRun(data, RnaAlphabet, MinRun)
         IN  (hasFastaHeaders \/ hasTabData) /\ hasSequenceData

\* the test of the response listener on the body of a response
ObserverAccepts(text) ==
    /\ Len(text) > ObserverMinLen
    /\ Includes(text, <<">">>) \/ Includes(text, <<"\t">>)
    /\ \/ Includes(text, <<"A", "T", "C", "G">>)
       \/ Includes(text, <<"a", "t", "c", "g">>)
       \/ Includes(text, <<"A", "C", "G", "T">>)
       \/ Includes(text, <<"a", "c", "g", "t">>)
       \/ HasPureLine(text, {"A", "T", "C", "G", "N", "-"})


(***************************************************************************)
(* DOM queries evaluated in the page                                       *)
(***************************************************************************)
\* the five Export-control strategies, in order; a page lists the strategies
\* that find an element in it
ExportStrategies ==
    << "#navbarDropdown",
       "a.nav-link.dropdown-toggle[data-bs-toggle=dropdown]",
       "li.nav-item.dropdown a.nav-link",
       "a.nav-link.dropdown-toggle:Export",
       "a[data-bs-toggle]:Export" >>

\* the four MSA-option strategies, in order
MsaStrategies ==
    << "#msa_button",
       "button.export-button#msa_button",
       ".export-button:MSA",
       "button:MSA" >>

\* for (const strategy of strategies) { if (element) { click; return true } } return false
FirstMatchClicks(strategies, page) ==
    \E k \in 1..Len(strategies) : strategies[k] \in page.matches

\* the clipboard read evaluated in the page: window.clipboardData if truthy,
\* else navigator.clipboard.readText(), whose error yields null
ClipboardRead(page) ==
    IF Truthy(page.clipboardData) THEN page.clipboardData
    ELSE IF page.readTextFails THEN NULL
    ELSE page.readText

\* the DOM scan: textarea, then pre, then any element with '>' and 'ATCG'
DomScan(page) ==
    IF Truthy(page.textarea) /\ Includes(page.textarea, <<">">>) THEN page.textarea
    ELSE IF Truthy(page.pre) /\ Includes(page.pre, <<">">>) THEN page.pre
    ELSE IF \E k \in 1..Len(page.elements) :
                /\ Truthy(page.elements[k])
                /\ Includes(page.elements[k], <<">">>)
                /\ Len(page.elements[k]) > DomMinLen
                /\ Includes(page.elements[k], <<"A", "T", "C", "G">>)
         THEN page.elements[
                CHOOSE k \in 1..Len(page.elements) :
                    /\ Truthy(page.elements[k])
                    /\ Includes(page.elements[k], <<">">>)
                    /\ Len(page.elements[k]) > DomMinLen
                    /\ Includes(page.elements[k], <<"A", "T", "C", "G">>)
                    /\ \A j \in 1..(k - 1) :
                          ~ /\ Truthy(page.elements[j])
                            /\ Includes(page.elements[j], <<">">>)
                            /\ Len(page.elements[j]) > DomMinLen
                            /\ Includes(page.elements[j], <<"A", "T", "C", "G">>)]
    ELSE NULL

\* the URL / content-type filter of the response listener; url and
\* contentType are sequences of tokens, includes() is token membership
HasToken(s, tok) == \E k \in 1..Len(s) : s[k] = tok

ObserverReadsBody(response) ==
    /\ \/ HasToken(response.url, "msa") /\ HasToken(response.url, ".tsv")
       \/ HasToken(response.url, "fasta")
       \/ HasToken(response.url, "export") /\ HasToken(response.contentType, "text")
       \/ response.contentType = <<"text", "/", "plain">>
       \/ response.contentType = <<"text", "/", "tab-separated-values">>
    /\ ~ \/ response.contentType = <<"image", "/", "png">>
         \/ response.contentType = <<"application", "/", "octet-stream">>
         \/ response.contentType = <<"application", "/", "pdf">>

\* the listener records the body of the response: the filter passes, the body
\* can be read, and the acceptance test holds
Records(response) ==
    ObserverReadsBody(response) /\ ~response.textFails /\ ObserverAccepts(response.body)

(***************************************************************************)
(* Inputs: the text bank, the pages, the responses, the genes              *)
(***************************************************************************)
DnaLine == <<"A", "T", "C", "G", "A", "T", "C", "G", "A", "T", "C", "G">>

RnaLine == <<"A", "C", "G", "U", "A", "C", "G", "U", "A", "C", "G", "U">>

FastaHead == <<">", "s", "1", "\n">>

\* accepted by the observer and by the classifier, below the short-circuit size
ValidSmall == FastaHead \o DnaLine \o <<"\n">> \o Rep("x", PadSmall)

\* accepted by both, above the short-circuit size
ValidBig == FastaHead \o DnaLine \o <<"\n">> \o Rep("y", PadBig) \o <<"\n">>

\* accepted by the observer, rejected by the classifier (BMP signature), big
BmpBig == BmpSignature \o ValidBig

\* accepted by the observer ('ATCG'), rejected by the classifier (no run of 10)
ShortRunSmall == FastaHead \o <<"A", "T", "C", "G", "\n">> \o Rep("x", PadSmall)

\* below both length thresholds
TinyText == FastaHead \o DnaLine

\* valid clipboard text with surrounding white space
ClipText == <<" ">> \o FastaHead \o DnaLine \o Rep("z", PadSmall) \o <<"\n">>

\* white space only, at least ClipboardMinLen long
BlankText == Rep(" ", ClipboardMinLen)

\* valid through the RNA alphabet only; the observer does not accept it
RnaText == FastaHead \o RnaLine \o <<"\n">> \o Rep("x", PadSmall)

NoPage ==
    [matches |-> {}, clipboardData |-> NULL, readTextFails |-> FALSE,
     readText |-> <<>>, textarea |-> NULL, pre |-> NULL, elements |-> <<>>]

Pages ==
    { NoPage,
      [NoPage EXCEPT !.matches = {"#navbarDropdown"}],
      [NoPage EXCEPT !.matches = {"li.nav-item.dropdown a.nav-link", "button:MSA"},
                     !.clipboardData = ClipText],
      [NoPage EXCEPT !.matches = {"#navbarDropdown", "#msa_button"},
                     !.clipboardData = ShortRunSmall],
      [NoPage EXCEPT !.matches = {"#navbarDropdown", "#msa_button"},
                     !.readText = BlankText],
      [NoPage EXCEPT !.matches = {"#navbarDropdown", "#msa_button"},
                     !.readTextFails = TRUE, !.textarea = RnaText],
      [NoPage EXCEPT !.matches = {"#navbarDropdown", "#msa_button"},
                     !.pre = TinyText],
      [NoPage EXCEPT !.matches = {"#navbarDropdown", "#msa_button"},
                     !.textarea = <<"n", "o">>, !.elements = <<TinyText, ValidSmall>>] }

Response(url, contentType, body) ==
    [url |-> url, contentType |-> contentType, body |-> body, textFails |-> FALSE]

Responses ==
    { Response(<<"data", "/", "msa", "/", "g", ".tsv">>,
               <<"text", "/", "tab-separated-values">>, ValidBig),
      Response(<<"api", "/", "fasta">>, <<"text", "/", "plain">>, ValidSmall),
      Response(<<"api", "/", "export">>, <<"text", "/", "plain">>, BmpBig),
      Response(<<"api", "/", "export">>, <<"text", "/", "html">>, ShortRunSmall),
      Response(<<"api", "/", "fasta">>, <<"image", "/", "png">>, ValidBig),
      Response(<<"index", ".html">>, <<"text", "/", "html">>, ValidBig),
      Response(<<"api", "/", "fasta">>, <<"text", "/", "plain">>, TinyText),
      [Response(<<"api", "/", "fasta">>, <<"text", "/", "plain">>, ValidBig)
          EXCEPT !.textFails = TRUE] }

\* each response of the bank with the outcome of the listener's test on it
Deliveries == {[response |-> r, recorded |-> Records(r)] : r \in Responses}

\* the value of msaDataFromNetwork after the listener has handled a response
OnResponse(current, delivery) ==
    IF delivery.recorded THEN delivery.response.body ELSE current

\* values of Date.now() / new Date().toISOString()
Instants == {"t1"}

Genes ==
    << [name |-> <<"T", "a", "u", "D">>, id |-> <<"M", "e", "d", "t", "r", "1">>],
       [name |-> <<"a", "/", "b">>, id |-> <<"M", "e", "d", "t", "r", "2">>] >>

\* text left in the output directory by an earlier run
OldText == <<">", "o", "l", "d">>

(***************************************************************************)
(* State                                                                   *)
(***************************************************************************)
VARIABLES
    pc,            \* where the single flow of control is suspended
    i,             \* main: index of the gene in the for loop (0-based)
    successCount,  \* main
    failCount,     \* main
    report,        \* main: the final report, once printed
    retryCount,    \* searchAndExportGene: parameter of the running invocation
    net,           \* msaDataFromNetwork of the running invocation
    listeners,     \* number of response listeners registered on the page
    pw,            \* the fs.writeFile in flight: its path and content
    lastError,     \* error.message of the error caught on the last attempt
    pendingLog,    \* saveFailedGene: failedGenes after the push
    files,         \* the output directory: path -> content
    failLog,       \* output/failed/failed_genes.json
    \* history of the running top-level call
    attempts,      \* executions of the pipeline body
    artWrites,     \* artifact writes completed
    markers,       \* failure marker writes completed
    logAdds,       \* failure-log writes completed
    result,        \* what the top-level call gave to main
    uiOps,         \* page interactions of the running attempt after the settle wait
    endKind,       \* how the last attempt ended
    markerCalls,   \* calls of createFailedFile
    site,          \* the write site that started the artifact write
    resolved,      \* the text that write site validated
    rejected,      \* the write sites whose validation rejected a text
    \* the response listeners on the shared page
    stale,         \* msaDataFromNetwork in the closure of the previous invocation
    netWriters,    \* the listeners (by registration number) that assigned net
    netOrigin,     \* the page state the text in net came from
    autocompleteFound, \* searchAndExportGene: local of the running invocation
    \* the classifier on its own
    data,          \* the argument of isValidMSAData
    valid,         \* its return value
    \* the gene source and the file names on their own
    rows,          \* parseGenesCSV: the rows the CSV parser delivers
    genes,         \* parseGenesCSV: the gene list it resolves with
    fileNames      \* getFileName of each gene of the list, in order

mainVars == <<i, successCount, failCount, report>>

callVars == <<retryCount, net, listeners, pw, lastError, pendingLog>>

fsVars == <<files, failLog>>

histVars ==
    <<attempts, artWrites, markers, logAdds, result, uiOps, endKind,
      markerCalls, site, resolved, rejected>>

observerVars == <<stale, netWriters, netOrigin>>

nameVars == <<rows, genes, fileNames>>

probeVars == <<data, valid, nameVars>>

vars == <<pc, mainVars, callVars, fsVars, histVars, observerVars, autocompleteFound, probeVars>>

NoWrite == [path |-> <<>>, content |-> <<>>]

NoReport == [printed |-> FALSE, successCount |-> 0, failCount |-> 0, namesFailureLog |-> FALSE]

gene == Genes[i + 1]

\* mutant of WriteFile: the content is appended to what the file held
WriteFileAppending(fs, path, content) ==
    [q \in DOMAIN fs \cup {path} |->
        IF q = path
        THEN IF path \in DOMAIN fs THEN fs[path] \o content ELSE content
        ELSE fs[q]]

\* fs.writeFile(path, content) that succeeds: the file holds exactly content
\* (a write that fails is taken to leave the directory as it was)
WriteFile(fs, path, content) ==
    [q \in DOMAIN fs \cup {path} |-> IF q = path THEN content ELSE fs[q]]

\* createFailedFile up to its fs.writeFile: the path and content of the marker
FailedFile(g, nowName, nowStamp) ==
    [path |-> JoinOutput(ReplaceFirst(getFileName(g.name, nowName), DotTxt, FailedDotTxt)),
     content |-> <<"FAILED TO RETRIEVE MSA DATA\nGene: ">> \o g.name
                    \o <<"\nID: ">> \o g.id \o <<"\nTimestamp: ", nowStamp>>]

\* mutant of ArtifactFile: the trimmed text is written
ArtifactFileTrimmed(g, text, now) ==
    [path |-> JoinOutput(getFileName(g.name, now)), content |-> Trim(text)]

\* the artifact write of the three write sites, up to its fs.writeFile
ArtifactFile(g, text, now) ==
    [path |-> JoinOutput(getFileName(g.name, now)), content |-> text]

\* JSON.parse of the failure log inside the try of saveFailedGene; the log on
\* disk is absent, unparseable, or the array an earlier saveFailedGene wrote
ReadFailedGenes(log, readFails) ==
    IF ~readFails /\ log.state = "array" THEN log.records ELSE <<>>

FailureRecord(g, message, now) == [gene |-> g, error |-> message, timestamp |-> now]

OldRecord == FailureRecord(Genes[1], "Navigation timeout of 30000 ms exceeded", "t0")

\* what earlier runs left on disk: the output directory and the failure log
InitialDisks ==
    { [files |-> WriteFile(<<>>, <<OUTPUT_DIR, "/", "notes">>, OldText),
       failLog |-> [state |-> "absent", records |-> <<>>]],
      [files |-> WriteFile(<<>>, <<OUTPUT_DIR, "/", "notes">>, OldText),
       failLog |-> [state |-> "corrupt", records |-> <<>>]],
      [files |-> WriteFile(<<>>, JoinOutput(getFileName(Genes[1].name, "t0")), OldText),
       failLog |-> [state |-> "array", records |-> <<OldRecord>>]] }

\* no CSV is being parsed
NoRows ==
    /\ rows = <<>>
    /\ genes = <<>>
    /\ fileNames = <<>>

Init ==
    /\ pc = "loop"
    /\ i = 0
    /\ successCount = 0
    /\ failCount = 0
    /\ report = NoReport
    /\ retryCount = 0
    /\ net = NULL
    /\ listeners = 0
    /\ pw = NoWrite
    /\ lastError = ""
    /\ pendingLog = <<>>
    /\ \E disk \in InitialDisks : files = disk.files /\ failLog = disk.failLog
    /\ attempts = 0
    /\ artWrites = 0
    /\ markers = 0
    /\ logAdds = 0
    /\ result = "none"
    /\ uiOps = {}
    /\ endKind = "none"
    /\ markerCalls = 0
    /\ site = "none"
    /\ resolved = NULL
    /\ rejected = {}
    /\ stale = NULL
    /\ netWriters = {}
    /\ netOrigin = "none"
    /\ autocompleteFound = FALSE
    /\ data = NULL
    /\ valid = "none"
    /\ NoRows

(***************************************************************************)
(* searchAndExportGene                                                     *)
(***************************************************************************)
\* function entry up to the await of page.goto: fresh capture variables,
\* one more request listener and one more response listener
Enter(rc) ==
    /\ pc' = "goto"
    /\ retryCount' = rc
    /\ net' = NULL
    /\ listeners' = listeners + 1
    /\ attempts' = (IF rc = 0 THEN 0 ELSE attempts) + 1
    /\ uiOps' = {}
    /\ endKind' = "none"
    /\ site' = "none"
    /\ resolved' = NULL
    /\ rejected' = {}
    /\ stale' = net
    /\ netWriters' = {}
    /\ netOrigin' = "none"
    /\ autocompleteFound' = FALSE

\* mutant of Caught: one retry too many
CaughtOffByOne(message) ==
    /\ endKind' = "thrown"
    /\ IF retryCount < MAX_RETRIES
       THEN /\ pc' = "backoff"
            /\ pw' = NoWrite
            /\ lastError' = lastError
            /\ markerCalls' = markerCalls
       ELSE /\ pc' = "exhaustMarker"
            /\ \E nowName \in Instants, nowStamp \in Instants :
                  pw' = FailedFile(gene, nowName, nowStamp)
            /\ lastError' = message
            /\ markerCalls' = markerCalls + 1

\* mutant of Caught: exhaustion logs the gene without createFailedFile
CaughtWithoutMarker(message) ==
    /\ endKind' = "thrown"
    /\ pw' = NoWrite
    /\ markerCalls' = markerCalls
    /\ IF retryCount < MAX_RETRIES - 1
       THEN /\ pc' = "backoff"
            /\ lastError' = lastError
       ELSE /\ pc' = "logRead"
            /\ lastError' = message

\* the catch block: retry after the backoff, or createFailedFile on exhaustion
Caught(message) ==
    /\ endKind' = "thrown"
    /\ IF retryCount < MAX_RETRIES - 1
       THEN /\ pc' = "backoff"
            /\ pw' = NoWrite
            /\ lastError' = lastError
            /\ markerCalls' = markerCalls
       ELSE /\ pc' = "exhaustMarker"
            /\ \E nowName \in Instants, nowStamp \in Instants :
                  pw' = FailedFile(gene, nowName, nowStamp)
            /\ lastError' = message
            /\ markerCalls' = markerCalls + 1

\* mutant of Structural: a structural failure uses the retry budget
StructuralRetried ==
    /\ endKind' = "structural"
    /\ UNCHANGED <<site, resolved>>
    /\ IF retryCount < MAX_RETRIES - 1
       THEN /\ pc' = "backoff"
            /\ pw' = NoWrite
            /\ markerCalls' = markerCalls
       ELSE /\ pc' = "markerWrite"
            /\ \E nowName \in Instants, nowStamp \in Instants :
                  pw' = FailedFile(gene, nowName, nowStamp)
            /\ markerCalls' = markerCalls + 1

\* a structural failure: createFailedFile, then return false
Structural ==
    /\ endKind' = "structural"
    /\ pc' = "markerWrite"
    /\ \E nowName \in Instants, nowStamp \in Instants :
          pw' = FailedFile(gene, nowName, nowStamp)
    /\ markerCalls' = markerCalls + 1
    /\ UNCHANGED <<site, resolved>>

\* a write site: fs.writeFile of the validated text is started
StartArtifact(text, at) ==
    /\ pc' = "artifactWrite"
    /\ \E now \in Instants : pw' = ArtifactFile(gene, text, now)
    /\ site' = at
    /\ resolved' = text
    /\ UNCHANGED <<endKind, markerCalls>>

\* an awaited page operation that completes
StepOk(from, to) ==
    /\ pc = from
    /\ pc' = to
    /\ UNCHANGED <<mainVars, callVars, fsVars, histVars>>
    /\ UNCHANGED <<observerVars, autocompleteFound, probeVars>>

\* an awaited page operation that throws
StepThrows(from, message) ==
    /\ pc = from
    /\ Caught(message)
    /\ UNCHANGED <<mainVars, retryCount, net, listeners, pendingLog, fsVars>>
    /\ UNCHANGED <<attempts, artWrites, markers, logAdds, result, uiOps, site, resolved, rejected>>
    /\ UNCHANGED <<observerVars, autocompleteFound, probeVars>>

Goto ==
    \/ StepOk("goto", "waitInput")
    \/ StepThrows("goto", "Navigation timeout of 30000 ms exceeded")

WaitInput ==
    \/ StepOk("waitInput", "clearInput")
    \/ StepThrows("waitInput", "Waiting for selector failed")

ClearInput ==
    \/ StepOk("clearInput", "typeId")
    \/ StepThrows("clearInput", "Execution context was destroyed")

TypeId ==
    \/ StepOk("typeId", "autocomplete")
    \/ StepThrows("typeId", "No node found for selector")

\* mutant of Autocomplete: the timeout of the wait reaches the outer catch
AutocompleteFatal ==
    /\ pc = "autocomplete"
    /\ \/ /\ pc' = "acSettle"
          /\ autocompleteFound' = TRUE
          /\ UNCHANGED <<pw, lastError, endKind, markerCalls>>
       \/ /\ Caught("Waiting for selector failed")
          /\ autocompleteFound' = FALSE
    /\ UNCHANGED <<mainVars, retryCount, net, listeners, pendingLog, fsVars>>
    /\ UNCHANGED <<attempts, artWrites, markers, logAdds, result, uiOps, site, resolved, rejected>>
    /\ UNCHANGED <<observerVars, probeVars>>

\* the wait for .ui-autocomplete: its timeout is caught and is not a failure
Autocomplete ==
    /\ pc = "autocomplete"
    /\ \/ pc' = "acSettle" /\ autocompleteFound' = TRUE
       \/ pc' = "submit" /\ autocompleteFound' = FALSE
    /\ UNCHANGED <<mainVars, callVars, fsVars, histVars, observerVars, probeVars>>

AcSettle == StepOk("acSettle", "acClick")

AcClick ==
    \/ StepOk("acClick", "submit")
    \/ StepThrows("acClick", "Execution context was destroyed")

\* page.click on the submit button; autocompleteFound is not read after it
Submit ==
    /\ pc = "submit"
    /\ \/ /\ pc' = "settle"
          /\ UNCHANGED <<pw, lastError, endKind, markerCalls>>
       \/ Caught("No node found for selector")
    /\ autocompleteFound' = FALSE
    /\ UNCHANGED <<mainVars, retryCount, net, listeners, pendingLog, fsVars>>
    /\ UNCHANGED <<attempts, artWrites, markers, logAdds, result, uiOps, site, resolved, rejected>>
    /\ UNCHANGED <<observerVars, probeVars>>

\* after the settle wait: the short-circuit check, then the Export evaluate
Settle ==
    /\ pc = "settle"
    /\ IF Truthy(net) /\ Len(net) > ShortCircuitLen
       THEN IF ~isValidMSAData(net)
            THEN /\ net' = NULL
                 /\ netOrigin' = "none"
                 /\ pc' = "export"
                 /\ rejected' = rejected \cup {"shortCircuit"}
                 /\ UNCHANGED <<pw, endKind, markerCalls, site, resolved>>
            ELSE /\ StartArtifact(net, "shortCircuit")
                 /\ UNCHANGED <<net, netOrigin, rejected>>
       ELSE /\ pc' = "export"
            /\ UNCHANGED <<net, netOrigin, pw, endKind, markerCalls, site, resolved, rejected>>
    /\ UNCHANGED <<mainVars, retryCount, listeners, lastError, pendingLog, fsVars>>
    /\ UNCHANGED <<attempts, artWrites, markers, logAdds, result, uiOps>>
    /\ UNCHANGED <<stale, netWriters, autocompleteFound, probeVars>>

\* the condition of the Export-miss fallback, with its length threshold
FallbackAccepts(text, threshold) ==
    Truthy(text) /\ Len(text) > threshold /\ isValidMSAData(text)

\* mutant of Export: an Export miss is a structural failure whatever was captured
ExportWithoutFallback ==
    /\ pc = "export"
    /\ \/ /\ Caught("Execution context was destroyed")
          /\ UNCHANGED <<uiOps, site, resolved, rejected>>
       \/ \E page \in Pages :
            /\ uiOps' = uiOps \cup {"export"}
            /\ IF FirstMatchClicks(ExportStrategies, page)
               THEN /\ pc' = "dropdown"
                    /\ UNCHANGED <<pw, endKind, markerCalls, site, resolved, rejected>>
               ELSE /\ Structural
                    /\ UNCHANGED rejected
            /\ UNCHANGED lastError
    /\ UNCHANGED <<mainVars, retryCount, net, listeners, pendingLog, fsVars>>
    /\ UNCHANGED <<attempts, artWrites, markers, logAdds, result>>
    /\ UNCHANGED <<observerVars, autocompleteFound, probeVars>>

\* the Export evaluate returns; on a miss the network fallback or the marker
Export ==
    /\ pc = "export"
    /\ \/ /\ Caught("Execution context was destroyed")
          /\ UNCHANGED <<uiOps, site, resolved, rejected>>
       \/ \E page \in Pages :
            /\ uiOps' = uiOps \cup {"export"}
            /\ IF FirstMatchClicks(ExportStrategies, page)
               THEN /\ pc' = "dropdown"
                    /\ UNCHANGED <<pw, endKind, markerCalls, site, resolved, rejected>>
               ELSE IF FallbackAccepts(net, FallbackLen)
               THEN /\ StartArtifact(net, "fallback")
                    /\ UNCHANGED rejected
               ELSE /\ Structural
                    /\ rejected' = IF Truthy(net) /\ Len(net) > FallbackLen
                                   THEN rejected \cup {"fallback"}
                                   ELSE rejected
            /\ UNCHANGED lastError
    /\ UNCHANGED <<mainVars, retryCount, net, listeners, pendingLog, fsVars>>
    /\ UNCHANGED <<attempts, artWrites, markers, logAdds, result>>
    /\ UNCHANGED <<observerVars, autocompleteFound, probeVars>>

Dropdown == StepOk("dropdown", "msa")

\* the MSA evaluate returns
Msa ==
    /\ pc = "msa"
    /\ \/ /\ Caught("Execution context was destroyed")
          /\ UNCHANGED <<uiOps, site, resolved>>
       \/ \E page \in Pages :
            /\ uiOps' = uiOps \cup {"msa"}
            /\ IF FirstMatchClicks(MsaStrategies, page)
               THEN /\ pc' = "clipWait"
                    /\ UNCHANGED <<pw, endKind, markerCalls, site, resolved>>
               ELSE Structural
            /\ UNCHANGED lastError
    /\ UNCHANGED <<mainVars, retryCount, net, listeners, pendingLog, fsVars>>
    /\ UNCHANGED <<attempts, artWrites, markers, logAdds, result, rejected>>
    /\ UNCHANGED <<observerVars, autocompleteFound, probeVars>>

\* mutant of Resolve: the resolved text is written without isValidMSAData
ResolveUnvalidated(msaData) ==
    IF Truthy(msaData) /\ Truthy(Trim(msaData))
    THEN /\ StartArtifact(msaData, "final")
         /\ UNCHANGED rejected
    ELSE /\ Structural
         /\ UNCHANGED rejected

\* the final validation and its two outcomes
Resolve(msaData) ==
    IF Truthy(msaData) /\ Truthy(Trim(msaData)) /\ isValidMSAData(msaData)
    THEN /\ StartArtifact(msaData, "final")
         /\ UNCHANGED rejected
    ELSE /\ Structural
         /\ rejected' = IF Truthy(msaData) /\ Truthy(Trim(msaData))
                        THEN rejected \cup {"final"}
                        ELSE rejected

\* after the clipboard wait: network data if any, else the clipboard evaluate
ClipWait ==
    /\ pc = "clipWait"
    /\ IF Truthy(net)
       THEN Resolve(net)
       ELSE /\ pc' = "clipboard"
            /\ UNCHANGED <<pw, endKind, markerCalls, site, resolved, rejected>>
    /\ UNCHANGED <<mainVars, retryCount, net, listeners, lastError, pendingLog, fsVars>>
    /\ UNCHANGED <<attempts, artWrites, markers, logAdds, result, uiOps>>
    /\ UNCHANGED <<observerVars, autocompleteFound, probeVars>>

\* the clipboard evaluate returns (or throws, which is caught in place)
Clipboard ==
    /\ pc = "clipboard"
    /\ uiOps' = uiOps \cup {"clipboard"}
    /\ \E page \in Pages, evaluateThrows \in BOOLEAN :
          LET msaData == IF evaluateThrows THEN NULL ELSE ClipboardRead(page)
          IN  IF ~Truthy(msaData) \/ Len(msaData) < ClipboardMinLen
              THEN /\ pc' = "domScan"
                   /\ UNCHANGED <<pw, endKind, markerCalls, site, resolved, rejected>>
              ELSE Resolve(msaData)
    /\ UNCHANGED <<mainVars, retryCount, net, listeners, lastError, pendingLog, fsVars>>
    /\ UNCHANGED <<attempts, artWrites, markers, logAdds, result>>
    /\ UNCHANGED <<observerVars, autocompleteFound, probeVars>>

\* the DOM-scan evaluate returns
Dom ==
    /\ pc = "domScan"
    /\ \/ /\ Caught("Execution context was destroyed")
          /\ UNCHANGED <<uiOps, site, resolved, rejected>>
       \/ /\ uiOps' = uiOps \cup {"dom"}
          /\ \E page \in Pages : Resolve(DomScan(page))
          /\ UNCHANGED lastError
    /\ UNCHANGED <<mainVars, retryCount, net, listeners, pendingLog, fsVars>>
    /\ UNCHANGED <<attempts, artWrites, markers, logAdds, result>>
    /\ UNCHANGED <<observerVars, autocompleteFound, probeVars>>

\* the top-level call is over: its parameters and capture variables are gone
CallEnds ==
    /\ retryCount' = 0
    /\ net' = NULL
    /\ lastError' = ""
    /\ stale' = NULL
    /\ netWriters' = {}
    /\ netOrigin' = "none"

\* fs.writeFile of the artifact completes: return true, or the error is caught
ArtifactWrite ==
    /\ pc = "artifactWrite"
    /\ \/ /\ files' = WriteFile(files, pw.path, pw.content)
          /\ artWrites' = artWrites + 1
          /\ result' = "true"
          /\ endKind' = "success"
          /\ pc' = "returned"
          /\ pw' = NoWrite
          /\ CallEnds
          /\ UNCHANGED markerCalls
       \/ /\ Caught("ENOSPC: no space left on device, write")
          /\ UNCHANGED <<files, artWrites, result, retryCount, net, observerVars>>
    /\ UNCHANGED <<mainVars, listeners, pendingLog, failLog>>
    /\ UNCHANGED <<attempts, markers, logAdds, uiOps, site, resolved, rejected>>
    /\ UNCHANGED <<autocompleteFound, probeVars>>

\* createFailedFile completes (its write error is caught inside it)
MarkerDone(next) ==
    /\ \/ /\ files' = WriteFile(files, pw.path, pw.content)
          /\ markers' = markers + 1
       \/ UNCHANGED <<files, markers>>
    /\ pc' = next
    /\ pw' = NoWrite

\* mutant of MarkerWrite: a structural failure goes on to saveFailedGene
MarkerWriteThenLog ==
    /\ pc = "markerWrite"
    /\ MarkerDone("logRead")
    /\ UNCHANGED <<mainVars, retryCount, net, listeners, lastError, pendingLog, failLog>>
    /\ UNCHANGED <<attempts, artWrites, logAdds, result, uiOps, endKind, markerCalls, site, resolved, rejected>>
    /\ UNCHANGED <<observerVars, autocompleteFound, probeVars>>

\* createFailedFile of a structural failure completes: return false
MarkerWrite ==
    /\ pc = "markerWrite"
    /\ MarkerDone("returned")
    /\ result' = "false"
    /\ CallEnds
    /\ UNCHANGED <<mainVars, listeners, pendingLog, failLog>>
    /\ UNCHANGED <<attempts, artWrites, logAdds, uiOps, endKind, markerCalls, site, resolved, rejected>>
    /\ UNCHANGED <<autocompleteFound, probeVars>>

\* createFailedFile of the exhausted retries completes: saveFailedGene starts
ExhaustMarker ==
    /\ pc = "exhaustMarker"
    /\ MarkerDone("logRead")
    /\ UNCHANGED <<mainVars, retryCount, net, listeners, lastError, pendingLog, failLog>>
    /\ UNCHANGED <<attempts, artWrites, logAdds, result, uiOps, endKind, markerCalls, site, resolved, rejected>>
    /\ UNCHANGED <<observerVars, autocompleteFound, probeVars>>

\* saveFailedGene: the read and parse (errors caught), the push, the write starts
LogRead ==
    /\ pc = "logRead"
    /\ \E readFails \in BOOLEAN, now \in Instants :
          pendingLog' = Append(ReadFailedGenes(failLog, readFails),
                               FailureRecord(gene, lastError, now))
    /\ pc' = "logWrite"
    /\ UNCHANGED <<mainVars, retryCount, net, listeners, pw, lastError, fsVars, histVars>>
    /\ UNCHANGED <<observerVars, autocompleteFound, probeVars>>

\* saveFailedGene: the write completes and false is returned, or it throws
\* and the error leaves searchAndExportGene
LogWrite ==
    /\ pc = "logWrite"
    /\ \/ /\ failLog' = [state |-> "array", records |-> pendingLog]
          /\ logAdds' = logAdds + 1
          /\ result' = "false"
          /\ pc' = "returned"
       \/ /\ result' = "threw"
          /\ pc' = "fatal"
          /\ UNCHANGED <<failLog, logAdds>>
    /\ pendingLog' = <<>>
    /\ CallEnds
    /\ UNCHANGED <<mainVars, listeners, pw, files>>
    /\ UNCHANGED <<attempts, artWrites, markers, uiOps, endKind, markerCalls, site, resolved, rejected>>
    /\ UNCHANGED <<autocompleteFound, probeVars>>

\* the backoff ends: the recursive call
Backoff ==
    /\ pc = "backoff"
    /\ Enter(retryCount + 1)
    /\ UNCHANGED <<mainVars, pw, lastError, pendingLog, fsVars>>
    /\ UNCHANGED <<artWrites, markers, logAdds, result, markerCalls>>
    /\ UNCHANGED probeVars

\* the page state a response delivered now can come from: until page.goto of
\* an invocation that is not the first on the page has navigated, requests of
\* the page the previous invocation left are still in flight
ResponseOrigins(at, registered) ==
    IF at = "goto" /\ registered > 1 THEN {"earlier", "fresh"} ELSE {"fresh"}

\* mutant of Deliver: msaDataFromNetwork is one variable shared by all listeners
DeliverShared(captures, delivery, registered) ==
    [own |-> OnResponse(captures.own, delivery),
     earlier |-> OnResponse(captures.own, delivery),
     writers |-> IF delivery.recorded
                 THEN captures.writers \cup ({registered - 1, registered} \ {0})
                 ELSE captures.writers]

\* the page emits the response to every listener registered on it; each one
\* assigns the msaDataFromNetwork of its own closure: own is the variable of
\* the running invocation (listener number registered), earlier the variable
\* of the invocation before it.  The continuations of the listeners commute,
\* as each writes its own variable, so they are taken in one step.
Deliver(captures, delivery, registered) ==
    [own |-> OnResponse(captures.own, delivery),
     earlier |-> IF registered > 1
                 THEN OnResponse(captures.earlier, delivery)
                 ELSE captures.earlier,
     writers |-> IF delivery.recorded
                 THEN captures.writers \cup {registered}
                 ELSE captures.writers]

\* the places where a response reaches the listeners while msaDataFromNetwork
\* of the running invocation can still be read; once createFailedFile or the
\* clipboard read has started it is not read again
ResponsePcs ==
    { "goto", "waitInput", "clearInput", "typeId", "autocomplete", "acSettle",
      "acClick", "submit", "settle", "export", "dropdown", "msa", "clipWait",
      "artifactWrite" }

ResponseListener ==
    /\ pc \in ResponsePcs
    /\ \E delivery \in Deliveries, origin \in ResponseOrigins(pc, listeners) :
          LET after == Deliver([own |-> net, earlier |-> stale, writers |-> netWriters],
                               delivery, listeners)
          IN  /\ net' = after.own
              /\ stale' = after.earlier
              /\ netWriters' = after.writers
              /\ netOrigin' = IF delivery.recorded THEN origin ELSE netOrigin
    /\ UNCHANGED <<pc, mainVars, retryCount, listeners, pw, lastError, pendingLog>>
    /\ UNCHANGED <<fsVars, histVars, autocompleteFound, probeVars>>

(***************************************************************************)
(* main                                                                    *)
(***************************************************************************)
\* mutant of CallGene: the loop does not wait for a retry that is pending
CallGeneWhileRetrying ==
    /\ pc \in {"loop", "backoff"}
    /\ i < Len(Genes)
    /\ Enter(0)
    /\ UNCHANGED <<mainVars, pw, lastError, pendingLog, fsVars>>
    /\ UNCHANGED <<artWrites, markers, logAdds, result, markerCalls>>
    /\ UNCHANGED probeVars

\* the for loop calls searchAndExportGene(page, gene)
CallGene ==
    /\ pc = "loop"
    /\ i < Len(Genes)
    /\ Enter(0)
    /\ UNCHANGED <<mainVars, pw, lastError, pendingLog, fsVars>>
    /\ UNCHANGED <<artWrites, markers, logAdds, result, markerCalls>>
    /\ UNCHANGED probeVars

\* mutant of Returned: a call that did not return true is not counted
ReturnedDropsFailures ==
    /\ pc = "returned"
    /\ IF result = "true"
       THEN successCount' = successCount + 1 /\ UNCHANGED failCount
       ELSE UNCHANGED <<successCount, failCount>>
    /\ IF i < Len(Genes) - 1
       THEN pc' = "delay" /\ UNCHANGED i
       ELSE pc' = "loop" /\ i' = i + 1
    /\ attempts' = 0
    /\ artWrites' = 0
    /\ markers' = 0
    /\ logAdds' = 0
    /\ result' = "none"
    /\ uiOps' = {}
    /\ endKind' = "none"
    /\ markerCalls' = 0
    /\ site' = "none"
    /\ resolved' = NULL
    /\ rejected' = {}
    /\ UNCHANGED <<report, callVars, fsVars>>
    /\ UNCHANGED <<observerVars, autocompleteFound, probeVars>>

\* mutant of Returned: the pacing delay is not skipped after the last gene
ReturnedAlwaysDelays ==
    /\ pc = "returned"
    /\ IF result = "true"
       THEN successCount' = successCount + 1 /\ UNCHANGED failCount
       ELSE failCount' = failCount + 1 /\ UNCHANGED successCount
    /\ pc' = "delay"
    /\ attempts' = 0
    /\ artWrites' = 0
    /\ markers' = 0
    /\ logAdds' = 0
    /\ result' = "none"
    /\ uiOps' = {}
    /\ endKind' = "none"
    /\ markerCalls' = 0
    /\ site' = "none"
    /\ resolved' = NULL
    /\ rejected' = {}
    /\ UNCHANGED <<i, report, callVars, fsVars>>
    /\ UNCHANGED <<observerVars, autocompleteFound, probeVars>>

\* the call returned: count it, then the pacing delay unless it was the last
Returned ==
    /\ pc = "returned"
    /\ IF result = "true"
       THEN successCount' = successCount + 1 /\ UNCHANGED failCount
       ELSE failCount' = failCount + 1 /\ UNCHANGED successCount
    /\ IF i < Len(Genes) - 1
       THEN pc' = "delay" /\ UNCHANGED i
       ELSE pc' = "loop" /\ i' = i + 1
    /\ attempts' = 0
    /\ artWrites' = 0
    /\ markers' = 0
    /\ logAdds' = 0
    /\ result' = "none"
    /\ uiOps' = {}
    /\ endKind' = "none"
    /\ markerCalls' = 0
    /\ site' = "none"
    /\ resolved' = NULL
    /\ rejected' = {}
    /\ UNCHANGED <<report, callVars, fsVars>>
    /\ UNCHANGED <<observerVars, autocompleteFound, probeVars>>

\* DELAY_BETWEEN_SEARCHES has passed
Delay ==
    /\ pc = "delay"
    /\ pc' = "loop"
    /\ i' = i + 1
    /\ UNCHANGED <<successCount, failCount, report, callVars, fsVars, histVars>>
    /\ UNCHANGED <<observerVars, autocompleteFound, probeVars>>

\* the final report, then browser.close() in the finally block
FinalReport ==
    /\ pc = "loop"
    /\ i >= Len(Genes)
    /\ report' = [printed |-> TRUE, successCount |-> successCount,
                  failCount |-> failCount, namesFailureLog |-> failCount > 0]
    /\ pc' = "closed"
    /\ UNCHANGED <<i, successCount, failCount, callVars, fsVars, histVars>>
    /\ UNCHANGED <<observerVars, autocompleteFound, probeVars>>

\* an error left the loop: main's catch prints it, finally closes the browser
Fatal ==
    /\ pc = "fatal"
    /\ pc' = "closed"
    /\ UNCHANGED <<mainVars, callVars, fsVars, histVars>>
    /\ UNCHANGED <<observerVars, autocompleteFound, probeVars>>

Next ==
    \/ CallGene
    \/ Goto
    \/ WaitInput
    \/ ClearInput
    \/ TypeId
    \/ Autocomplete
    \/ AcSettle
    \/ AcClick
    \/ Submit
    \/ Settle
    \/ Export
    \/ Dropdown
    \/ Msa
    \/ ClipWait
    \/ Clipboard
    \/ Dom
    \/ ArtifactWrite
    \/ MarkerWrite
    \/ ExhaustMarker
    \/ LogRead
    \/ LogWrite
    \/ Backoff
    \/ ResponseListener
    \/ Returned
    \/ Delay
    \/ FinalReport
    \/ Fatal

Spec == Init /\ [][Next]_vars

(***************************************************************************)
(* isValidMSAData on its own: a blob is drawn, the classifier is applied    *)
(***************************************************************************)
\* what a blob starts with: nothing, a binary signature, a signature further in
BlobPrefixes ==
    {<<>>, PngSignature, JpegSignature, GifSignature, BmpSignature, <<"x">> \o BmpSignature}

BlobMarkers == {<<>>, <<">">>, <<"\t">>}

\* no run; a DNA run of MinRun; one of MinRun - 1; a lower-case RNA run; a
\* mixed-case DNA run with gaps; a run broken by another letter; a run of
\* MinRun letters of which none of the two alphabets has them all
BlobRuns ==
    { <<>>,
      SubSeq(DnaLine, 1, MinRun),
      SubSeq(DnaLine, 1, MinRun - 1),
      ToLowerCase(SubSeq(RnaLine, 1, MinRun)),
      <<"A", "t", "-", "N", "c", "G", "n", "-", "T", "a">>,
      SubSeq(DnaLine, 1, MinRun - 1) \o <<"x">> \o SubSeq(DnaLine, 1, MinRun - 1),
      <<"A", "T", "C", "G", "U", "A", "T", "C", "G", "U">> }

BlobPoisons == {<<>>, <<NUL>>, <<REPLACEMENT>>}

\* the blob is filled up to these lengths (0: not filled)
BlobLengths == {0, MinValidLen - 1, MinValidLen}

Blob(prefix, marker, run, poison, length) ==
    LET core == prefix \o marker \o run \o poison
    IN  IF Len(core) < length THEN core \o Rep("x", length - Len(core)) ELSE core

Blobs ==
    {NULL} \cup
    { Blob(prefix, marker, run, poison, length) :
        prefix \in BlobPrefixes, marker \in BlobMarkers, run \in BlobRuns,
        poison \in BlobPoisons, length \in BlobLengths }

\* no scraper is running: the variables of main and of searchAndExportGene
Quiet ==
    /\ i = 0
    /\ successCount = 0
    /\ failCount = 0
    /\ report = NoReport
    /\ retryCount = 0
    /\ net = NULL
    /\ listeners = 0
    /\ pw = NoWrite
    /\ lastError = ""
    /\ pendingLog = <<>>
    /\ attempts = 0
    /\ artWrites = 0
    /\ markers = 0
    /\ logAdds = 0
    /\ result = "none"
    /\ uiOps = {}
    /\ endKind = "none"
    /\ markerCalls = 0
    /\ site = "none"
    /\ resolved = NULL
    /\ rejected = {}
    /\ stale = NULL
    /\ netWriters = {}
    /\ netOrigin = "none"
    /\ autocompleteFound = FALSE

ClassifierInit ==
    /\ pc = "classify"
    /\ data \in Blobs
    /\ valid = "none"
    /\ NoRows
    /\ Quiet
    /\ files = <<>>
    /\ failLog = [state |-> "absent", records |-> <<>>]

\* one call of isValidMSAData
Classify ==
    /\ pc = "classify"
    /\ valid' = IF isValidMSAData(data) THEN "true" ELSE "false"
    /\ pc' = "classified"
    /\ UNCHANGED <<data, nameVars>>
    /\ UNCHANGED <<mainVars, callVars, fsVars, histVars, observerVars, autocompleteFound>>

ClassifierNext == Classify

ClassifierSpec == ClassifierInit /\ [][ClassifierNext]_vars

(***************************************************************************)
(* The basic scraper (src/scraper.js): one attempt per gene, the clipboard  *)
(* only, every error caught at the end of searchAndExportGene               *)
(***************************************************************************)
\* the four Export-control strategies of the basic scraper, in order
BasicExportStrategies ==
    << "#navbarDropdown",
       "a[data-bs-toggle=dropdown]",
       ".nav-link.dropdown-toggle",
       "a.dropdown-toggle:Export" >>

DotFasta == <<".", "f", "a", "s", "t", "a">>

\* the artifact of the basic scraper: path.join(OUTPUT_DIR, `${gene.name}.fasta`)
BasicArtifactFile(g, text) ==
    [path |-> <<OUTPUT_DIR, "/">> \o g.name \o DotFasta, content |-> text]

\* the clipboard read evaluated in the page: readText(), whose error yields null
BasicClipboardRead(page) ==
    IF page.readTextFails THEN NULL ELSE page.readText

\* the variables of the enhanced scraper, which the basic scraper does not have
enhancedVars ==
    <<retryCount, net, listeners, pendingLog, failLog, attempts, artWrites, markers,
      logAdds, uiOps, endKind, markerCalls, site, resolved, rejected, observerVars,
      autocompleteFound, probeVars>>

BasicInit ==
    /\ pc = "basic:loop"
    /\ Quiet
    /\ data = NULL
    /\ valid = "none"
    /\ NoRows
    /\ \E disk \in InitialDisks : files = disk.files /\ failLog = disk.failLog

\* the for loop calls searchAndExportGene(page, gene)
BasicCallGene ==
    /\ pc = "basic:loop"
    /\ i < Len(Genes)
    /\ pc' = "basic:goto"
    /\ lastError' = ""
    /\ UNCHANGED <<mainVars, pw, files, result, enhancedVars>>

\* the catch block at the end of searchAndExportGene: return false
BasicCaught(message) ==
    /\ pc' = "basic:returned"
    /\ result' = "false"
    /\ lastError' = message
    /\ pw' = NoWrite

\* an awaited page operation completes, or throws and is caught
BasicStep(from, to, message) ==
    /\ pc = from
    /\ \/ pc' = to /\ UNCHANGED <<result, lastError, pw>>
       \/ BasicCaught(message)
    /\ UNCHANGED <<mainVars, files, enhancedVars>>

BasicGoto == BasicStep("basic:goto", "basic:waitInput", "Navigation timeout of 30000 ms exceeded")

BasicWaitInput == BasicStep("basic:waitInput", "basic:clickInput", "Waiting for selector failed")

BasicClickInput == BasicStep("basic:clickInput", "basic:typeId", "No node found for selector")

BasicTypeId == BasicStep("basic:typeId", "basic:autocomplete", "No node found for selector")

\* the wait for .ui-autocomplete stands in the outer try: the list appears, or
\* the TimeoutError of the wait is caught at the end and false is returned
BasicAutocomplete ==
    BasicStep("basic:autocomplete", "basic:acSettle", "Waiting for selector failed")

\* the 500 ms for the list to load
BasicAcSettle ==
    /\ pc = "basic:acSettle"
    /\ pc' = "basic:firstResult"
    /\ UNCHANGED <<mainVars, pw, lastError, files, result, enhancedVars>>

\* page.$ of the first item: an element, null, or an error
BasicFirstResult ==
    /\ pc = "basic:firstResult"
    /\ \/ pc' = "basic:clickFirst" /\ UNCHANGED <<result, lastError, pw>>
       \/ pc' = "basic:submit" /\ UNCHANGED <<result, lastError, pw>>
       \/ BasicCaught("Execution context was destroyed")
    /\ UNCHANGED <<mainVars, files, enhancedVars>>

BasicClickFirst ==
    BasicStep("basic:clickFirst", "basic:submit", "Node is detached from document")

BasicSubmit == BasicStep("basic:submit", "basic:settle", "No node found for selector")

\* the 3000 ms for the results
BasicSettle ==
    /\ pc = "basic:settle"
    /\ pc' = "basic:export"
    /\ UNCHANGED <<mainVars, pw, lastError, files, result, enhancedVars>>

\* the Export evaluate returns; a miss is thrown as an Error
BasicExport ==
    /\ pc = "basic:export"
    /\ \/ BasicCaught("Execution context was destroyed")
       \/ \E page \in Pages :
            IF FirstMatchClicks(BasicExportStrategies, page)
            THEN pc' = "basic:dropdown" /\ UNCHANGED <<result, lastError, pw>>
            ELSE BasicCaught("Export dropdown not found")
    /\ UNCHANGED <<mainVars, files, enhancedVars>>

\* the 500 ms for the dropdown menu
BasicDropdown ==
    /\ pc = "basic:dropdown"
    /\ pc' = "basic:msa"
    /\ UNCHANGED <<mainVars, pw, lastError, files, result, enhancedVars>>

\* the MSA evaluate returns; a miss is thrown as an Error
BasicMsa ==
    /\ pc = "basic:msa"
    /\ \/ BasicCaught("Execution context was destroyed")
       \/ \E page \in Pages :
            IF FirstMatchClicks(MsaStrategies, page)
            THEN pc' = "basic:clipWait" /\ UNCHANGED <<result, lastError, pw>>
            ELSE BasicCaught("MSA button not found")
    /\ UNCHANGED <<mainVars, files, enhancedVars>>

\* the 2000 ms for the clipboard
BasicClipWait ==
    /\ pc = "basic:clipWait"
    /\ pc' = "basic:clipboard"
    /\ UNCHANGED <<mainVars, pw, lastError, files, result, enhancedVars>>

\* the clipboard evaluate returns: the write starts, or false is returned
BasicClipboard ==
    /\ pc = "basic:clipboard"
    /\ \/ BasicCaught("Execution context was destroyed")
       \/ \E page \in Pages :
            LET msaData == BasicClipboardRead(page)
            IN  IF Truthy(msaData)
                THEN /\ pc' = "basic:write"
                     /\ pw' = BasicArtifactFile(gene, msaData)
                     /\ UNCHANGED <<result, lastError>>
                ELSE /\ pc' = "basic:returned"
                     /\ result' = "false"
                     /\ UNCHANGED <<lastError, pw>>
    /\ UNCHANGED <<mainVars, files, enhancedVars>>

\* fs.writeFile of the artifact completes: return true, or the error is caught
BasicWrite ==
    /\ pc = "basic:write"
    /\ \/ /\ files' = WriteFile(files, pw.path, pw.content)
          /\ result' = "true"
          /\ pc' = "basic:returned"
          /\ pw' = NoWrite
          /\ UNCHANGED lastError
       \/ /\ BasicCaught("ENOENT: no such file or directory, open")
          /\ UNCHANGED files
    /\ UNCHANGED <<mainVars, enhancedVars>>

\* the call returned: count it, then the pacing delay unless it was the last
BasicReturned ==
    /\ pc = "basic:returned"
    /\ IF result = "true"
       THEN successCount' = successCount + 1 /\ UNCHANGED failCount
       ELSE failCount' = failCount + 1 /\ UNCHANGED successCount
    /\ IF i < Len(Genes) - 1
       THEN pc' = "basic:delay" /\ UNCHANGED i
       ELSE pc' = "basic:loop" /\ i' = i + 1
    /\ result' = "none"
    /\ UNCHANGED <<report, pw, lastError, files, enhancedVars>>

BasicDelay ==
    /\ pc = "basic:delay"
    /\ pc' = "basic:loop"
    /\ i' = i + 1
    /\ UNCHANGED <<successCount, failCount, report, pw, lastError, files, result, enhancedVars>>

\* the totals are printed, then browser.close() in the finally block
BasicFinalReport ==
    /\ pc = "basic:loop"
    /\ i >= Len(Genes)
    /\ report' = [printed |-> TRUE, successCount |-> successCount,
                  failCount |-> failCount, namesFailureLog |-> FALSE]
    /\ pc' = "basic:closed"
    /\ UNCHANGED <<i, successCount, failCount, pw, lastError, files, result, enhancedVars>>

BasicNext ==
    \/ BasicCallGene
    \/ BasicGoto
    \/ BasicWaitInput
    \/ BasicClickInput
    \/ BasicTypeId
    \/ BasicAutocomplete
    \/ BasicAcSettle
    \/ BasicFirstResult
    \/ BasicClickFirst
    \/ BasicSubmit
    \/ BasicSettle
    \/ BasicExport
    \/ BasicDropdown
    \/ BasicMsa
    \/ BasicClipWait
    \/ BasicClipboard
    \/ BasicWrite
    \/ BasicReturned
    \/ BasicDelay
    \/ BasicFinalReport

BasicSpec == BasicInit /\ [][BasicNext]_vars

(***************************************************************************)
(* parseGenesCSV and getFileName on their own: a gene list of two rows     *)
(***************************************************************************)
\* first fields of a row as the CSV parser delivers them (trimmed)
RowNames ==
    { <<"T", "a", "u", "D">>,
      <<"a", "/", "b">>,
      <<"a", "_", "b">>,
      <<"a", ":", "b">>,
      <<"a", "*", "b">>,
      <<"\"", "a", "/", "b", "\"">>,
      <<"a", " ", "\"">>,
      <<"\"", " ", "\"">>,
      <<>>,
      <<"N", "A">>,
      <<"n", "a">>,
      <<"N", "a">> }

\* second fields of a row
RowIds == { <<"M", "e", "d", "t", "r", "1">>, <<"N", "A">> }

\* the rows: two fields, or one field only
Rows == { <<name, id>> : name \in RowNames, id \in RowIds } \cup { <<<<"T", "a", "u", "D">>>> }

\* field.replace(/"/g, '').trim()
CleanField(field) == Trim(SelectSeq(field, LAMBDA c : c # "\""))

\* the 'data' handler of parseGenesCSV, row by row
parseGenesCSV(delivered) ==
    LET cleaned == [k \in 1..Len(delivered) |->
                       IF Len(delivered[k]) >= 2
                       THEN [name |-> CleanField(delivered[k][1]),
                             id |-> CleanField(delivered[k][2])]
                       ELSE [name |-> <<>>, id |-> <<>>]]
        kept(g) == /\ Truthy(g.name)
                   /\ Truthy(g.id)
                   /\ g.name # <<"N", "A">>
                   /\ g.id # <<"N", "A">>
    IN  SelectSeq(cleaned, kept)

\* Date.now() of the calls for the genes of the list: the calls follow one
\* another, the pacing delay between them
CallInstants == <<"t1", "t2">>

NamesInit ==
    /\ pc = "parseCSV"
    /\ rows \in {<<first, second>> : first \in Rows, second \in Rows}
    /\ genes = <<>>
    /\ fileNames = <<>>
    /\ Quiet
    /\ data = NULL
    /\ valid = "none"
    /\ files = <<>>
    /\ failLog = [state |-> "absent", records |-> <<>>]

\* parseGenesCSV resolves with the gene list
ParseRows ==
    /\ pc = "parseCSV"
    /\ genes' = parseGenesCSV(rows)
    /\ pc' = "getFileName"
    /\ UNCHANGED <<rows, fileNames, data, valid>>
    /\ UNCHANGED <<mainVars, callVars, fsVars, histVars, observerVars, autocompleteFound>>

\* getFileName(gene.name) for each gene of the list, in the order of the loop
NameFiles ==
    /\ pc = "getFileName"
    /\ fileNames' = [k \in 1..Len(genes) |-> getFileName(genes[k].name, CallInstants[k])]
    /\ pc' = "named"
    /\ UNCHANGED <<rows, genes, data, valid>>
    /\ UNCHANGED <<mainVars, callVars, fsVars, histVars, observerVars, autocompleteFound>>

NamesNext == ParseRows \/ NameFiles

NamesSpec == NamesInit /\ [][NamesNext]_vars

(***************************************************************************)
(* Properties                                                              *)
(***************************************************************************)
\* the places of the flow of control inside searchAndExportGene
CallPcs ==
    ResponsePcs \cup {"clipboard", "domScan", "markerWrite", "exhaustMarker",
                      "backoff", "logRead", "logWrite"}

ArtifactPath(g) == JoinOutput(getFileName(g.name, "t1"))

MarkerExists(g) == \E now \in Instants : FailedFile(g, now, now).path \in DOMAIN files

\* the artifact path as the specification words it: the special characters
\* replaced by '_', then ".txt", inside the output directory
ExpectedArtifactPath(g) ==
    <<"./output", "/">>
        \o [k \in 1..Len(g.name) |->
               IF g.name[k] \in {"<", ">", ":", "\"", "/", "\\", "|", "?", "*"}
               THEN "_" ELSE g.name[k]]
        \o <<".", "t", "x", "t">>

\* C1 (as stated): when the top-level call of a gene that failed returns, the
\* failure log has one new entry, its last, for that gene with a non-empty
\* error, and the gene's failure marker was made (the file exists whenever the
\* write inside createFailedFile succeeded; C6 is about the swallowed error).
C1_FailedGeneIsLogged ==
    (pc = "returned" /\ result = "false") =>
        /\ logAdds = 1
        /\ failLog.state = "array"
        /\ Len(failLog.records) >= 1
        /\ failLog.records[Len(failLog.records)].gene = gene
        /\ failLog.records[Len(failLog.records)].error # ""
        /\ markerCalls = 1
        /\ markers = 1 => MarkerExists(gene)

C3_BoundedRetries ==
    [][ /\ attempts' <= MAX_RETRIES
        /\ attempts' > attempts =>
              (pc \in {"loop", "backoff"} /\ attempts' = attempts + 1)
        /\ retryCount' > retryCount =>
              /\ pc = "backoff"
              /\ retryCount < MAX_RETRIES - 1
              /\ retryCount' = retryCount + 1
        /\ pc' \in CallPcs => attempts' = retryCount' + 1 ]_vars

\* the third and last attempt of a gene has been started
C3_Witness ==
    pc = "goto" /\ retryCount = MAX_RETRIES - 1 /\ attempts = MAX_RETRIES

\* C4 (as stated): no error leaves the top-level searchAndExportGene call.
C4_NoExceptionEscapes == result # "threw"

\* C5 (as stated): when the run has ended, every gene was processed and the
\* final report was printed.
C5_RunCompletes ==
    pc = "closed" =>
        /\ report.printed
        /\ successCount + failCount = Len(Genes)

\* C6 (as stated): when the top-level call returns, exactly one of an artifact
\* (return true) and a failure marker (return false) was produced, and a log
\* entry was added only on exhausted retries.
C6_ExactlyOneOutcome ==
    pc = "returned" =>
        /\ (artWrites >= 1) # (markers >= 1)
        /\ (result = "true") <=> (artWrites >= 1)
        /\ logAdds >= 1 => (markers >= 1 /\ attempts = MAX_RETRIES)

\* C6 (amended): when the top-level call returns, either it returns true and
\* exactly one artifact was written, no marker and no log entry, or it returns
\* false, no artifact was written and createFailedFile ran exactly once, which
\* leaves the marker file unless its write failed; a log entry was added only
\* on exhausted retries.
C6_OneOutcomeUnlessMarkerWriteFails ==
    pc = "returned" =>
        /\ result \in {"true", "false"}
        /\ result = "true" =>
              /\ artWrites = 1 /\ markerCalls = 0 /\ markers = 0 /\ logAdds = 0
              /\ ArtifactPath(gene) \in DOMAIN files
        /\ result = "false" =>
              /\ artWrites = 0 /\ markerCalls = 1 /\ markers \in {0, 1}
              /\ markers = 1 => MarkerExists(gene)
        /\ logAdds \in {0, 1}
        /\ logAdds = 1 => (attempts = MAX_RETRIES /\ endKind = "thrown")

\* a gene returned false and the write of its marker had failed
C6_Witness ==
    pc = "returned" /\ result = "false" /\ markerCalls = 1 /\ markers = 0

C8_ShortCircuitSucceeds ==
    site = "shortCircuit" =>
        /\ uiOps = {}
        /\ pc \in {"artifactWrite", "returned"}
        /\ pc = "returned" => (result = "true" /\ files[ArtifactPath(gene)] = resolved)

\* C8 (amended): such an attempt performs no Export, MSA, clipboard or DOM
\* operation and starts the write of exactly that text to the gene's artifact
\* file; it returns success when that write succeeds, and a failure of that
\* write is caught as the thrown error of the attempt.
C8_ShortCircuitWritesOrThrows ==
    [][ /\ ( /\ pc = "settle" /\ pc' # "settle"
             /\ Truthy(net) /\ Len(net) > ShortCircuitLen /\ isValidMSAData(net) )
           => /\ pc' = "artifactWrite"
              /\ site' = "shortCircuit"
              /\ pw' = [path |-> ExpectedArtifactPath(gene), content |-> net]
        /\ site' = "shortCircuit" =>
              /\ uiOps' = {}
              /\ pc' = "artifactWrite" \/ endKind' \in {"success", "thrown"}
              /\ endKind' = "success" =>
                    /\ pc' = "returned"
                    /\ result' = "true"
                    /\ artWrites' = 1
                    /\ files'[ExpectedArtifactPath(gene)] = resolved'
              /\ endKind' = "thrown" => (artWrites' = 0 /\ result' # "true") ]_vars

\* the short-circuit wrote the big network text and the call returned true
C8_Witness ==
    pc = "returned" /\ site = "shortCircuit" /\ result = "true" /\ resolved = ValidBig

\* C9: when the top-level call returns true, exactly one artifact write was
\* made during the call, the file at OUTPUT_DIR/<sanitised name>.txt holds
\* exactly the resolved text, untrimmed, and nothing of its earlier content.
C9_OneArtifactExactText ==
    (pc = "returned" /\ result = "true") =>
        /\ artWrites = 1
        /\ ExpectedArtifactPath(gene) \in DOMAIN files
        /\ files[ExpectedArtifactPath(gene)] = resolved

\* the first gene, whose artifact an earlier run had left, succeeded on a
\* retry with clipboard text that has white space at both ends
C9_Witness ==
    /\ pc = "returned" /\ result = "true" /\ i = 0 /\ attempts > 1
    /\ resolved = ClipText /\ Trim(resolved) # resolved
    /\ failLog.records = <<OldRecord>>

\* C10 (as stated): every text the response observer records is longer than
\* 100 characters and passes isValidMSAData.
C10_RecordedTextIsValid ==
    Truthy(net) => (Len(net) > ObserverMinLen /\ isValidMSAData(net))

\* C11: the msaDataFromNetwork of the running invocation is assigned only by
\* the listener that this invocation registered, never by a listener that an
\* earlier invocation left on the page.
C11_OwnListenersOnly ==
    /\ netWriters \subseteq {listeners}
    /\ listeners = 0 => net = NULL

\* an earlier listener is still on the page and has recorded a response in its
\* own variable; the running invocation's variable was written by its own
\* listener and then reset by the short-circuit check
C11_Witness ==
    /\ listeners > 1
    /\ Truthy(stale)
    /\ net = NULL
    /\ netWriters = {listeners}

\* C12 (as stated): a response that comes from the page state an earlier
\* invocation left, delivered after the listeners of the next invocation were
\* registered and before its navigation, is never recorded as that invocation's
\* captured data (and so never reaches its artifact).
C12_NoStraddle ==
    Truthy(net) => netOrigin # "earlier"

\* the blob has none of the four binary signatures at its start
NoSignature(text) ==
    /\ ~StartsWith(text, PngSignature)
    /\ ~StartsWith(text, JpegSignature)
    /\ ~StartsWith(text, GifSignature)
    /\ ~StartsWith(text, BmpSignature)

\* the blob has '>' or a tab, and MinRun symbols in a row of one alphabet
MarkerAndRun(text) ==
    /\ Includes(text, <<">">>) \/ Includes(text, <<"\t">>)
    /\ HasRun(text, DnaAlphabet, MinRun) \/ HasRun(text, RnaAlphabet, MinRun)

\* C13: isValidMSAData returns false for every blob shorter than MinValidLen
\* characters and for every blob with a null byte or U+FFFD in it, whatever
\* else the blob holds.
C13_ShortOrPoisonedRejected ==
    (/\ valid # "none"
     /\ \/ Len(data) < MinValidLen
        \/ Includes(data, <<NUL>>)
        \/ Includes(data, <<REPLACEMENT>>))
    => valid = "false"

\* a blob that has everything the classifier asks for, and U+FFFD, was rejected
C13_Witness ==
    /\ valid = "false"
    /\ data # NULL
    /\ Len(data) >= MinValidLen
    /\ NoSignature(data)
    /\ MarkerAndRun(data)
    /\ Includes(data, <<REPLACEMENT>>)
    /\ ~Includes(data, <<NUL>>)

\* C14 (as stated): isValidMSAData returns true for every string of at least
\* MinValidLen characters that starts with none of the four signatures, has
\* '>' or a tab, and has a run of MinRun symbols of one of the two alphabets.
C14_WellFormedAccepted ==
    (/\ valid # "none"
     /\ data # NULL
     /\ Len(data) >= MinValidLen
     /\ NoSignature(data)
     /\ MarkerAndRun(data))
    => valid = "true"

\* C14 (amended): the same, for the strings that hold no null byte and no
\* U+FFFD.
C14_WellFormedCleanAccepted ==
    (/\ valid # "none"
     /\ data # NULL
     /\ Len(data) >= MinValidLen
     /\ NoSignature(data)
     /\ MarkerAndRun(data)
     /\ ~Includes(data, <<NUL>>)
     /\ ~Includes(data, <<REPLACEMENT>>))
    => valid = "true"

\* a string of exactly MinValidLen characters with a tab and a lower-case run
\* that only the RNA alphabet covers was accepted
C14_Witness ==
    /\ valid = "true"
    /\ Len(data) = MinValidLen
    /\ Includes(data, <<"\t">>)
    /\ ~Includes(data, <<">">>)
    /\ ~HasRun(data, DnaAlphabet, MinRun)
    /\ HasRun(data, RnaAlphabet, MinRun)

\* C15 (as stated): a saveFailedGene call that completes leaves every record
\* the log held before it in place and in order, and adds one record for the
\* gene at the end.
C15_AppendOnly ==
    [][ (pc = "logWrite" /\ pc' = "returned") =>
            /\ Len(failLog'.records) = Len(failLog.records) + 1
            /\ SubSeq(failLog'.records, 1, Len(failLog.records)) = failLog.records
            /\ failLog'.records[Len(failLog'.records)].gene = gene ]_vars

\* the failure log holds a record that was written in this run
LoggedThisRun ==
    /\ failLog.state = "array"
    /\ \E k \in 1..Len(failLog.records) : failLog.records[k].timestamp \in Instants

\* C16 (as stated): the final report names the failure log exactly when the
\* log holds a record of a gene that failed in this run.
C16_ReportNamesLogIffLogged ==
    report.printed => (report.namesFailureLog <=> LoggedThisRun)

\* C17: when the wait for the autocomplete list times out, the attempt goes on
\* to the submit click: nothing is caught by the outer handler, no retry is
\* used, no marker or log entry is made.
C17_AutocompleteTimeoutNotFatal ==
    [][ (pc = "autocomplete" /\ pc' \notin {"autocomplete", "acSettle"}) =>
            /\ pc' = "submit"
            /\ ~autocompleteFound'
            /\ UNCHANGED <<retryCount, attempts, endKind, markerCalls, lastError>>
            /\ UNCHANGED <<result, net, files, failLog, successCount, failCount>> ]_vars

\* the first attempt is about to submit the search after the list did not appear
C17_Witness ==
    /\ pc = "submit"
    /\ ~autocompleteFound
    /\ attempts = 1
    /\ endKind = "none"

\* C18 (as stated): in the basic scraper the wait for the autocomplete list
\* never ends the gene: when the list does not appear the submit click is next,
\* as when it appears the click on the first suggestion is.
C18_BasicSearchesWithoutAutocomplete ==
    [][ pc = "basic:autocomplete" => pc' \in {"basic:acSettle", "basic:submit"} ]_vars

\* C19: a first attempt starts only from the loop, when the calls of all the
\* genes before it have returned and were counted; while a call is running the
\* loop index stays on its gene; the index moves by one, after the outcome of
\* its gene was counted.
C19_Sequential ==
    [][ /\ (attempts' = 1 /\ attempts # 1) =>
              /\ pc = "loop"
              /\ i' = i
              /\ i < Len(Genes)
              /\ successCount + failCount = i
        /\ pc' \in CallPcs => (i' < Len(Genes) /\ successCount' + failCount' = i')
        /\ (pc \in CallPcs /\ pc' \in CallPcs) => i' = i
        /\ i' # i => (i' = i + 1 /\ successCount' + failCount' = i') ]_vars

\* the first attempt of the second gene has started, the first gene is counted
C19_Witness ==
    /\ pc = "goto"
    /\ i = 1
    /\ attempts = 1
    /\ retryCount = 0
    /\ successCount + failCount = 1

\* C20: after the call of every gene but the last the loop waits the pacing
\* delay once and then moves to the next gene; after the call of the last gene
\* it moves on without a delay, and the final report follows.
C20_PacingBetweenGenes ==
    [][ /\ (pc = "returned" /\ i < Len(Genes) - 1) => (pc' = "delay" /\ i' = i)
        /\ (pc = "returned" /\ i >= Len(Genes) - 1) => (pc' = "loop" /\ i' = i + 1)
        /\ pc = "delay" => (pc' = "loop" /\ i' = i + 1 /\ i' < Len(Genes))
        /\ pc' = "delay" => pc = "returned"
        /\ (attempts' = 1 /\ attempts # 1 /\ i > 0) => pc = "loop"
        /\ (pc = "loop" /\ i >= Len(Genes)) => (pc' = "closed" /\ report'.printed) ]_vars

\* the pacing delay after the first gene is running
C20_Witness ==
    /\ pc = "delay"
    /\ i = 0
    /\ successCount + failCount = 1

\* the genes whose top-level call has been made so far
GenesStarted == IF pc = "loop" \/ report.printed THEN i ELSE i + 1

\* C21 (as stated): the response listeners (and, registered in pairs with
\* them, the request listeners) on the page are never more than the genes
\* started so far.
C21_ListenersWithinGenesStarted ==
    listeners <= GenesStarted

\* C21 (amended): every invocation registers one listener of each kind and none
\* is removed, so the listeners are never more than MAX_RETRIES for each gene
\* started so far, and never fewer than the genes started.
C21_ListenersWithinAttempts ==
    /\ listeners <= MAX_RETRIES * GenesStarted
    /\ listeners >= GenesStarted
    /\ pc \in CallPcs => listeners >= i + attempts

\* the first gene is on its last attempt: MAX_RETRIES listeners for one gene
C21_Witness ==
    /\ pc \in CallPcs
    /\ i = 0
    /\ attempts = MAX_RETRIES
    /\ listeners = MAX_RETRIES

\* the step on which the Export evaluate reports that no strategy matched
ExportMissed == pc = "export" /\ uiOps' # uiOps /\ pc' # "dropdown"

\* the step on which createFailedFile of a structural failure completes
MarkerCompleted == pc = "markerWrite" /\ pc' # "markerWrite"

\* C22 (as stated): on an Export miss the attempt returns success, with the
\* network text as the artifact, exactly when classifier-valid network text
\* has been observed, whatever its length; otherwise it writes the failure
\* marker and returns false at once, with no retry and no failure-log entry.
C22_ExportMissFallback ==
    [][ /\ ExportMissed =>
              IF Truthy(net) /\ isValidMSAData(net)
              THEN /\ pc' = "artifactWrite"
                   /\ site' = "fallback"
                   /\ pw' = [path |-> ExpectedArtifactPath(gene), content |-> net]
              ELSE /\ pc' = "markerWrite"
                   /\ markerCalls' = markerCalls + 1
        /\ site' = "fallback" =>
              \/ pc' = "artifactWrite"
              \/ /\ pc' = "returned"
                 /\ result' = "true"
                 /\ files'[ExpectedArtifactPath(gene)] = resolved'
        /\ MarkerCompleted =>
              /\ pc' = "returned"
              /\ result' = "false"
              /\ attempts' = attempts
              /\ logAdds' = logAdds
              /\ failLog' = failLog ]_vars

\* C22 (amended): on an Export miss the attempt starts the write of the
\* network text to the gene's artifact file exactly when classifier-valid
\* network text is held, whatever its length; it returns success when that
\* write succeeds, and a failure of that write is caught as the thrown error
\* of the attempt. Otherwise createFailedFile is called and the attempt
\* returns false at once, with no retry and no failure-log entry.
C22_ExportMissWritesOrThrows ==
    [][ /\ ExportMissed =>
              IF Truthy(net) /\ isValidMSAData(net)
              THEN /\ pc' = "artifactWrite"
                   /\ site' = "fallback"
                   /\ pw' = [path |-> ExpectedArtifactPath(gene), content |-> net]
              ELSE /\ pc' = "markerWrite"
                   /\ endKind' = "structural"
                   /\ markerCalls' = markerCalls + 1
        /\ site' = "fallback" =>
              /\ pc' = "artifactWrite" \/ endKind' \in {"success", "thrown"}
              /\ endKind' = "success" =>
                    /\ pc' = "returned"
                    /\ result' = "true"
                    /\ artWrites' = 1
                    /\ files'[ExpectedArtifactPath(gene)] = resolved'
              /\ endKind' = "thrown" => (artWrites' = 0 /\ result' # "true")
        /\ MarkerCompleted =>
              /\ pc' = "returned"
              /\ result' = "false"
              /\ attempts' = attempts
              /\ logAdds' = logAdds
              /\ failLog' = failLog
              /\ markers' \in {markers, markers + 1}
              /\ markers' = markers + 1 => MarkerExists(gene)' ]_vars

\* the fallback wrote network text below the short-circuit threshold and the
\* call returned true
C22_Witness ==
    /\ pc = "returned"
    /\ site = "fallback"
    /\ result = "true"
    /\ Truthy(resolved)
    /\ Len(resolved) <= ShortCircuitLen

\* C23 (as stated): after the MSA option is activated the clipboard is read
\* whenever network interception has yielded no classifier-valid text, so
\* that a lower channel's data is used when the higher channels yield none.
C23_ClipboardReadWithoutUsableNetwork ==
    [][ ( /\ pc = "clipWait"
          /\ pc' # "clipWait"
          /\ ~(Truthy(net) /\ isValidMSAData(net)) )
        => pc' = "clipboard" ]_vars

\* the genes whose top-level call has returned and been counted
GenesFinished == IF pc = "delay" THEN i + 1 ELSE i

\* C24: after k genes are finished successCount + failCount = k; each
\* finished gene adds exactly one to exactly one counter, successCount exactly
\* when its top-level call returned true; no counter ever decreases; and the
\* final report shows counters whose sum is the number of genes in the list.
C24_RunStatistics ==
    /\ [](successCount + failCount = GenesFinished)
    /\ [](report.printed =>
             /\ report.successCount = successCount
             /\ report.failCount = failCount
             /\ report.successCount + report.failCount = Len(Genes))
    /\ [][ /\ successCount' >= successCount
           /\ failCount' >= failCount
           /\ (successCount' # successCount \/ failCount' # failCount) =>
                 /\ pc = "returned"
                 /\ successCount' + failCount' = successCount + failCount + 1
                 /\ successCount' = successCount + 1 <=> result = "true"
           /\ (pc = "returned" /\ pc' # "returned") =>
                 successCount' + failCount' = successCount + failCount + 1 ]_vars

\* the final report of a run with one gene saved and one gene failed
C24_Witness ==
    /\ report.printed
    /\ report.successCount = 1
    /\ report.failCount = 1

\* the places of an attempt up to the short-circuit check
BeforeCheckPcs ==
    { "goto", "waitInput", "clearInput", "typeId", "autocomplete", "acSettle",
      "acClick", "submit", "settle" }

\* what the short-circuit check asks of the capture variable
GoodCapture(text) ==
    Truthy(text) /\ Len(text) > ShortCircuitLen /\ isValidMSAData(text)

\* C25 (as stated): within one attempt, once the capture variable holds
\* classifier-valid text longer than 1000 characters it holds such text at
\* every later point up to the short-circuit check (no later response
\* replaces it with shorter or invalid text), and the check then short-circuits.
C25_GoodCaptureStable ==
    [][ /\ ( /\ pc \in BeforeCheckPcs
             /\ pc' \in BeforeCheckPcs
             /\ GoodCapture(net) )
           => GoodCapture(net')
        /\ (pc = "settle" /\ pc' # "settle" /\ GoodCapture(net)) =>
              (pc' = "artifactWrite" /\ site' = "shortCircuit") ]_vars

\* C26 (as stated): a failure-log entry is added only on retry exhaustion by
\* thrown errors: the gene had exactly MAX_RETRIES attempts, each ended by a
\* caught exception, its failure marker file was created before the entry,
\* and its top-level call returns false; at most one entry is added per gene,
\* and an attempt that returns false without throwing adds none.
C26_LoggedOnlyOnExhaustion ==
    [][ /\ logAdds' \in {0, logAdds, logAdds + 1}
        /\ failLog' # failLog => logAdds' = logAdds + 1
        /\ logAdds' = logAdds + 1 =>
              /\ pc = "logWrite"
              /\ logAdds = 0
              /\ attempts = MAX_RETRIES
              /\ endKind = "thrown"
              /\ markerCalls = 1
              /\ markers = 1 /\ MarkerExists(gene)
              /\ pc' = "returned"
              /\ result' = "false"
              /\ failLog'.state = "array"
              /\ failLog'.records[Len(failLog'.records)].gene = gene
        /\ pc' = "backoff" => endKind' = "thrown"
        /\ endKind' = "structural" =>
              /\ logAdds' = 0
              /\ pc' \notin {"backoff", "exhaustMarker", "logRead", "logWrite"} ]_vars

\* C26 (amended): as stated, except that before the entry createFailedFile
\* was called once for the gene, and the marker file exists unless the write
\* inside createFailedFile failed.
C26_LoggedAfterCreateFailedFile ==
    [][ /\ logAdds' \in {0, logAdds, logAdds + 1}
        /\ failLog' # failLog => logAdds' = logAdds + 1
        /\ logAdds' = logAdds + 1 =>
              /\ pc = "logWrite"
              /\ logAdds = 0
              /\ attempts = MAX_RETRIES
              /\ endKind = "thrown"
              /\ markerCalls = 1
              /\ markers \in {0, 1} /\ (markers = 1 => MarkerExists(gene))
              /\ pc' = "returned"
              /\ result' = "false"
              /\ failLog'.state = "array"
              /\ failLog'.records[Len(failLog'.records)].gene = gene
        /\ pc' = "backoff" => endKind' = "thrown"
        /\ endKind' = "structural" =>
              /\ logAdds' = 0
              /\ pc' \notin {"backoff", "exhaustMarker", "logRead", "logWrite"} ]_vars

\* the entry was logged and the call returned false although the marker file
\* could not be written
C26_Witness ==
    /\ pc = "returned"
    /\ result = "false"
    /\ logAdds = 1
    /\ attempts = MAX_RETRIES
    /\ markerCalls = 1
    /\ markers = 0

\* C27: for every value of the capture variable the Export-miss fallback
\* condition (non-null, longer than FallbackLen, isValidMSAData) is true
\* exactly when the value is non-null and isValidMSAData accepts it, and the
\* same holds with any threshold below MinValidLen in place of FallbackLen.
C27_FallbackThresholdRedundant ==
    valid # "none" =>
        /\ FallbackLen < MinValidLen
        /\ FallbackAccepts(data, FallbackLen) <=> (Truthy(data) /\ valid = "true")
        /\ \A threshold \in 0..(MinValidLen - 1) :
              FallbackAccepts(data, threshold) <=> (Truthy(data) /\ valid = "true")

\* a text between the two thresholds that has everything else the classifier
\* asks for was rejected
C27_Witness ==
    /\ valid = "false"
    /\ data # NULL
    /\ Len(data) > FallbackLen
    /\ Len(data) < MinValidLen
    /\ NoSignature(data)
    /\ MarkerAndRun(data)
    /\ ~Includes(data, <<NUL>>)
    /\ ~Includes(data, <<REPLACEMENT>>)

\* C28 (as stated): two genes of the list with different names get different
\* artifact paths from getFileName, so no artifact of a run is overwritten by
\* another gene of the run.
C28_DistinctNamesDistinctPaths ==
    pc = "named" =>
        \A j \in 1..Len(genes), k \in 1..Len(genes) :
            genes[j].name # genes[k].name =>
                JoinOutput(fileNames[j]) # JoinOutput(fileNames[k])

====
